---- MODULE Spec2Model ----
(***************************************************************************)
(* Model of src/test_upload_efficiency.py: the upload probe that obtains a *)
(* token with a scope fallback, looks up the team, creates an import and   *)
(* uploads files as multipart/form-data bodies.                            *)
(*                                                                         *)
(* Bytes are modelled as sequences of chunks; a chunk is a string of the   *)
(* bytes it stands for, so concatenating the chunks of a body gives the    *)
(* bytes the program sends.  Python values are pairs <<type, text>>.       *)
(***************************************************************************)
EXTENDS Integers, Sequences, FiniteSets, TLC

VARIABLES
    pc,         \* position of the run: the next network call, or done/crashed
    fs,         \* the local filesystem: path -> <<exists, content>>
    now,        \* the last value read from time.time()
    token,      \* main's token
    team_id,    \* main's team_id
    import_id,  \* main's import_id
    requests,   \* the HTTP requests issued so far, each with its response
    calls,      \* the upload calls made so far, with arguments and result
    log         \* the lines printed so far

vars == <<pc, fs, now, token, team_id, import_id, requests, calls, log>>

----------------------------------------------------------------------------
(* Bounds of the model *)

\* longest file content, in chunks
MaxContentLen == 1

\* longest list of files handed to upload_batch when it is called directly
MaxFiles == 2

\* the latest value time.time() returns, in whole seconds
MaxTime == 2

\* the values time.time() may return
Clock == 1..MaxTime

\* the chunks a file may hold: an ordinary byte, and the bytes of a
\* delimiter line of the single upload at time 1
ContentBytes == {"x", "------TestBoundary1"}

\* the HTTP statuses the server may answer with
Statuses == {200, 201, 401}

\* the remote paths upload functions are called with directly
RemotePaths == {"/", "/DATALOG"}

----------------------------------------------------------------------------
(* Python values *)

PyNone == <<"none", "">>
PyStr(s) == <<"str", s>>
PyInt(n) == <<"int", ToString(n)>>
PyBool(b) == <<"bool", IF b THEN "True" ELSE "False">>

\* str(v), as an f-string formats a value
Str(v) == IF v[1] = "none" THEN "None" ELSE v[2]

\* truth value of v, as `if not token` tests it
Truthy(v) ==
    CASE v[1] = "none" -> FALSE
      [] v[1] = "str"  -> v[2] # ""
      [] v[1] = "int"  -> v[2] # "0"
      [] v[1] = "bool" -> v[2] = "True"

----------------------------------------------------------------------------
(* Program constants *)

CLIENT_ID == "XUDOMtBDQE_ftzZwDKS7PM3naIl6r__Sz69LrhbyBk8"
CLIENT_SECRET == "41pRyqRmWUZhwnWssLvAw67eVA7NVDPQKkzyiSSfwjw"
BASE_URL == "https://sleephq.com"

\* paths are sequences of components
test_file == <<"root", "sdcard2", "Identification.json">>
files == << <<"root", "sdcard2", "Identification.json">>,
            <<"root", "sdcard2", "Identification.crc">> >>

\* a third file, of the same base name as test_file, for direct calls
other_file == <<"root", "backup", "Identification.json">>

MainPaths == {files[i] : i \in 1..Len(files)} \cup {test_file}
AllPaths == MainPaths \cup {other_file}

----------------------------------------------------------------------------
(* Sequences *)

SeqsUpTo(S, n) == UNION {[1..k -> S] : k \in 0..n}

RECURSIVE Flatten(_)
\* the bytes of a sequence of chunks, as one string
Flatten(chunks) ==
    IF chunks = <<>> THEN "" ELSE Head(chunks) \o Flatten(Tail(chunks))

RECURSIVE ByteLen(_)
\* the number of bytes of a sequence of chunks
ByteLen(chunks) ==
    IF chunks = <<>> THEN 0 ELSE Len(Head(chunks)) + ByteLen(Tail(chunks))

----------------------------------------------------------------------------
(* The filesystem *)

Contents == SeqsUpTo(ContentBytes, MaxContentLen)
Absent == <<FALSE, <<>> >>
FileStates == {Absent} \cup {<<TRUE, c>> : c \in Contents}

\* os.path.exists(path)
exists(path) == fs[path][1]

\* open(path, "rb").read()
read(path) == fs[path][2]

RECURSIVE FullPath(_)
\* the path itself, as text
FullPath(path) ==
    IF path = <<>> THEN "" ELSE "/" \o Head(path) \o FullPath(Tail(path))

\* os.path.basename(path)
basename(path) == IF path = <<>> THEN "" ELSE path[Len(path)]

----------------------------------------------------------------------------
(* HTTP responses.  A response is its status and its body; the body is a   *)
(* shape and, for the shape "value", the value of the field the caller     *)
(* reads.  Shapes: "error" (a body the program does not parse), "invalid"  *)
(* (not JSON), "empty" ({}), "null_data" ({"data": null}), "value".        *)

Resp(status, shape, val) == [status |-> status, shape |-> shape, val |-> val]

\* the tokens the server issues, by attempt
AccessTokens == <<"tokenA", "tokenB", "tokenC">>

\* the answers to a request whose body the program parses on status `on`:
\* with that status any of `bodies` or the body holding `good`; with another
\* status below 400 the body holding `good`, and else an error body
Responses(on, bodies, good) ==
    {Resp(on, b[1], b[2]) : b \in bodies}
        \cup {Resp(s, IF s < 400 THEN "value" ELSE "error",
                      IF s < 400 THEN good ELSE PyNone) : s \in Statuses}

TokenResponses(k) ==
    Responses(200, {<<"invalid", PyNone>>, <<"empty", PyNone>>,
                    <<"value", PyStr("")>>}, PyStr(AccessTokens[k]))

MeResponses ==
    Responses(200, {<<"invalid", PyNone>>, <<"empty", PyNone>>,
                    <<"null_data", PyNone>>}, PyInt(42))

ImportResponses ==
    Responses(201, {<<"invalid", PyNone>>, <<"empty", PyNone>>,
                    <<"null_data", PyNone>>}, PyStr("999"))

UploadResponses == {Resp(s, "error", PyNone) : s \in Statuses}

\* response.text
Text(resp) ==
    CASE resp.shape = "error"     -> "error"
      [] resp.shape = "invalid"   -> "<html>"
      [] resp.shape = "empty"     -> "{}"
      [] resp.shape = "null_data" -> "{\"data\": null}"
      [] resp.shape = "value"     -> "{..." \o Str(resp.val) \o "...}"

\* response.json().get(field): <<"ok", value>> or <<"raise", exception>>
JsonGet(resp) ==
    CASE resp.shape = "invalid" -> <<"raise", "JSONDecodeError">>
      [] resp.shape = "value"   -> <<"ok", resp.val>>
      [] OTHER                  -> <<"ok", PyNone>>

\* response.json().get("data", {}).get(field)
JsonGetData(resp) ==
    CASE resp.shape = "invalid"   -> <<"raise", "JSONDecodeError">>
      [] resp.shape = "null_data" -> <<"raise", "AttributeError">>
      [] resp.shape = "value"     -> <<"ok", resp.val>>
      [] OTHER                    -> <<"ok", PyNone>>

\* a request as issued by function `by`, with the response it received
Request(by, method, url, auth, ctype, body, resp) ==
    [by |-> by, method |-> method, url |-> url, auth |-> auth, ctype |-> ctype,
     body |-> body, resp |-> resp]

Bearer(tok) == "Bearer " \o Str(tok)

----------------------------------------------------------------------------
(* get_token *)

TokenUrl == BASE_URL \o "/oauth/token"

\* TokenData with the scopes of the first two attempts exchanged
TokenDataApiFirst(k) ==
    "grant_type=password&client_id=" \o CLIENT_ID
        \o "&client_secret=" \o CLIENT_SECRET
        \o (CASE k = 1 -> "&scope=api"
              [] k = 2 -> "&scope=read+write"
              [] k = 3 -> "")

\* the form body of attempt k
TokenData(k) ==
    "grant_type=password&client_id=" \o CLIENT_ID
        \o "&client_secret=" \o CLIENT_SECRET
        \o (CASE k = 1 -> "&scope=read+write"
              [] k = 2 -> "&scope=api"
              [] k = 3 -> "")

TokenRequest(k, resp) ==
    Request("get_token", "POST", TokenUrl, "", "application/x-www-form-urlencoded",
            <<TokenData(k)>>, resp)

\* TokenSuccess asking for a token in the body as well
TokenSuccessWithToken(resp) ==
    resp.status = 200 /\ resp.shape = "value" /\ resp.val # PyStr("")

\* whether a token response is a success
TokenSuccess(resp) == resp.status = 200

\* MainGotToken without the test of the token
MainGotTokenUnchecked(tok) ==
    /\ token' = tok
    /\ pc' = "get_team_id"

\* main, from the return of get_token: `if not token: return`
MainGotToken(tok) ==
    /\ token' = tok
    /\ pc' = IF Truthy(tok) THEN "get_team_id" ELSE "done"

\* `return response.json().get("access_token")`, and main's use of it
ReturnAccessToken(resp) ==
    LET r == JsonGet(resp)
    IN  IF r[1] = "raise"
        THEN pc' = "crashed" /\ UNCHANGED token
        ELSE MainGotToken(r[2])

get_token_1 ==
    /\ pc = "get_token_1"
    /\ \E resp \in TokenResponses(1) :
          /\ requests' = Append(requests, TokenRequest(1, resp))
          /\ IF TokenSuccess(resp)
             THEN /\ ReturnAccessToken(resp)
                  /\ log' = Append(log, "Requesting token with body: " \o TokenData(1))
             ELSE /\ log' = log \o <<"Requesting token with body: " \o TokenData(1),
                                     "Token attempt 1 failed: " \o Text(resp)>>
                  /\ pc' = "get_token_2"
                  /\ UNCHANGED token
    /\ UNCHANGED <<fs, now, team_id, import_id, calls>>

get_token_2 ==
    /\ pc = "get_token_2"
    /\ \E resp \in TokenResponses(2) :
          /\ requests' = Append(requests, TokenRequest(2, resp))
          /\ IF TokenSuccess(resp)
             THEN ReturnAccessToken(resp)
             ELSE pc' = "get_token_3" /\ UNCHANGED token
    /\ UNCHANGED <<fs, now, team_id, import_id, calls, log>>

\* get_token_3 repeating the attempt once when it is rejected
get_token_3_retrying ==
    /\ pc = "get_token_3"
    /\ \E resp \in TokenResponses(3) :
          /\ requests' = Append(requests, TokenRequest(3, resp))
          /\ IF TokenSuccess(resp)
             THEN ReturnAccessToken(resp) /\ UNCHANGED log
             ELSE IF Len(requests) < 3
                  THEN UNCHANGED <<pc, token, log>>
                  ELSE /\ log' = Append(log, "All token attempts failed.")
                       /\ MainGotToken(PyNone)
    /\ UNCHANGED <<fs, now, team_id, import_id, calls>>

get_token_3 ==
    /\ pc = "get_token_3"
    /\ \E resp \in TokenResponses(3) :
          /\ requests' = Append(requests, TokenRequest(3, resp))
          /\ IF TokenSuccess(resp)
             THEN ReturnAccessToken(resp) /\ UNCHANGED log
             ELSE /\ log' = Append(log, "All token attempts failed.")
                  /\ MainGotToken(PyNone)
    /\ UNCHANGED <<fs, now, team_id, import_id, calls>>

----------------------------------------------------------------------------
(* get_team_id *)

MeUrl == BASE_URL \o "/api/v1/me"

\* GetTeamIdResult raising on a status other than 200
GetTeamIdResultRaising(resp) ==
    IF resp.status = 200 THEN JsonGetData(resp) ELSE <<"raise", "HTTPError">>

\* the value get_team_id returns on a response: <<"ok", id>> or <<"raise", e>>
GetTeamIdResult(resp) ==
    IF resp.status = 200 THEN JsonGetData(resp) ELSE <<"ok", PyNone>>

get_team_id ==
    /\ pc = "get_team_id"
    /\ \E resp \in MeResponses :
          LET r == GetTeamIdResult(resp)
          IN  /\ requests' = Append(requests,
                    Request("get_team_id", "GET", MeUrl, Bearer(token), "", <<>>, resp))
              /\ IF r[1] = "raise"
                 THEN pc' = "crashed" /\ UNCHANGED <<team_id, log>>
                 ELSE /\ team_id' = r[2]
                      /\ log' = Append(log, "Team ID: " \o Str(r[2]))
                      /\ pc' = "create_import"
    /\ UNCHANGED <<fs, now, token, import_id, calls>>

----------------------------------------------------------------------------
(* create_import *)

ImportsUrl(team) == BASE_URL \o "/api/v1/teams/" \o Str(team) \o "/imports"

\* json.dumps(payload)
ImportPayload == "{\"data\": {\"type\": \"imports\", \"attributes\": {}}}"

\* CreateImportResult reading the identifier on any status below 300
CreateImportResultAnySuccess(resp) ==
    IF resp.status < 300 THEN JsonGetData(resp) ELSE <<"ok", PyNone>>

\* the value create_import returns on a response: <<"ok", id>> or <<"raise", e>>
CreateImportResult(resp) ==
    IF resp.status = 201 THEN JsonGetData(resp) ELSE <<"ok", PyNone>>

create_import ==
    /\ pc = "create_import"
    /\ \E resp \in ImportResponses :
          LET r == CreateImportResult(resp)
              creating == "Creating import for team " \o Str(team_id) \o "..."
              failed == IF resp.status = 201 THEN <<>>
                        ELSE <<"Create import error: " \o ToString(resp.status)
                                   \o " " \o Text(resp)>>
          IN  /\ requests' = Append(requests,
                    Request("create_import", "POST", ImportsUrl(team_id), Bearer(token),
                            "application/vnd.api+json", <<ImportPayload>>, resp))
              /\ IF r[1] = "raise"
                 THEN /\ pc' = "crashed"
                      /\ log' = Append(log, creating)
                      /\ UNCHANGED import_id
                 ELSE /\ import_id' = r[2]
                      /\ log' = log \o <<creating>> \o failed
                                    \o <<"Import ID: " \o Str(r[2])>>
                      /\ pc' = "upload_file_hash_last"
    /\ UNCHANGED <<fs, now, token, team_id, calls>>

----------------------------------------------------------------------------
(* The content hash and the multipart bodies *)

\* hashlib.md5(data).hexdigest(): the digest is modelled as collision-free,
\* a distinct text for each input
MD5Hex(data) == "md5(" \o data \o ")"

\* content_hash over the bytes of the file alone
content_hash_bytes_only(file_content, file_name) ==
    MD5Hex(Flatten(file_content))

\* hashlib.md5(file_content + file_name.encode()).hexdigest()
content_hash(file_content, file_name) ==
    MD5Hex(Flatten(file_content) \o file_name)

\* "----TestBoundary" + str(int(time.time()))
TestBoundary(t) == "----TestBoundary" \o ToString(t)

\* "----BatchBoundary" + str(int(time.time()))
BatchBoundary(t) == "----BatchBoundary" \o ToString(t)

\* f"--{boundary}\r\n": the delimiter and the end of its line
DelimiterLine(boundary) == <<"--" \o boundary, "\r\n">>

\* ClosingLine without the two dashes that close the body
ClosingLineUnclosed(boundary) == <<"--" \o boundary, "\r\n">>

\* f"--{boundary}--\r\n"
ClosingLine(boundary) == <<"--" \o boundary, "--\r\n">>

\* b'Content-Disposition: form-data; name="<name>"\r\n\r\n'
FieldHeader(name) ==
    "Content-Disposition: form-data; name=\"" \o name \o "\"\r\n\r\n"

\* f'Content-Disposition: form-data; name="<name>"; filename="{file_name}"\r\n'
FileHeader(name, file_name) ==
    "Content-Disposition: form-data; name=\"" \o name
        \o "\"; filename=\"" \o file_name \o "\"\r\n"

ContentTypeHeader == "Content-Type: application/octet-stream\r\n\r\n"

\* SingleBody with the hash part moved before the file part
SingleBodyHashBeforeFile(boundary, file_name, file_content, remote_path, hash) ==
    DelimiterLine(boundary) \o <<FieldHeader("name")>>
        \o <<file_name>> \o <<"\r\n">>
        \o DelimiterLine(boundary) \o <<FieldHeader("path")>>
        \o <<remote_path>> \o <<"\r\n">>
        \o DelimiterLine(boundary) \o <<FieldHeader("content_hash")>>
        \o <<hash>> \o <<"\r\n">>
        \o DelimiterLine(boundary) \o <<FileHeader("file", file_name)>>
        \o <<ContentTypeHeader>> \o file_content \o <<"\r\n">>
        \o ClosingLine(boundary)

\* the body upload_file_hash_last builds
SingleBody(boundary, file_name, file_content, remote_path, hash) ==
    \* Name part
    DelimiterLine(boundary) \o <<FieldHeader("name")>>
        \o <<file_name>> \o <<"\r\n">>
    \* Path part
        \o DelimiterLine(boundary) \o <<FieldHeader("path")>>
        \o <<remote_path>> \o <<"\r\n">>
    \* File part
        \o DelimiterLine(boundary) \o <<FileHeader("file", file_name)>>
        \o <<ContentTypeHeader>> \o file_content \o <<"\r\n">>
    \* Hash part (LAST)
        \o DelimiterLine(boundary) \o <<FieldHeader("content_hash")>>
        \o <<hash>> \o <<"\r\n">>
        \o ClosingLine(boundary)

\* what one iteration of upload_batch's loop appends for a file
BatchTriple(boundary, file_name, file_content, hash) ==
    \* Name
    DelimiterLine(boundary) \o <<FieldHeader("name[]")>>
        \o <<file_name>> \o <<"\r\n">>
    \* Hash
        \o DelimiterLine(boundary) \o <<FieldHeader("content_hash[]")>>
        \o <<hash>> \o <<"\r\n">>
    \* File
        \o DelimiterLine(boundary) \o <<FileHeader("file[]", file_name)>>
        \o <<ContentTypeHeader>> \o file_content \o <<"\r\n">>

RECURSIVE BatchLoopReusing(_, _)
\* BatchLoop taking the bytes of a file that upload_file_hash_last has sent
\* from the body of that request
BatchLoopReusing(boundary, file_paths) ==
    IF file_paths = <<>> THEN <<>>
    ELSE LET file_path == Head(file_paths)
             file_name == basename(file_path)
             sent == {i \in 1..Len(calls) :
                         /\ calls[i].fn = "upload_file_hash_last"
                         /\ calls[i].file_paths = <<file_path>>}
             file_content ==
                 IF sent = {} THEN read(file_path)
                 ELSE LET b == requests[calls[CHOOSE i \in sent : TRUE].request].body
                      IN  SubSeq(b, 15, Len(b) - 8)
         IN  BatchTriple(boundary, file_name, file_content,
                         content_hash(file_content, file_name))
                 \o BatchLoopReusing(boundary, Tail(file_paths))

RECURSIVE BatchLoop(_, _)
\* the body after upload_batch's loop over file_paths
BatchLoop(boundary, file_paths) ==
    IF file_paths = <<>> THEN <<>>
    ELSE LET file_path == Head(file_paths)
             file_name == basename(file_path)
             file_content == read(file_path)
         IN  BatchTriple(boundary, file_name, file_content,
                         content_hash(file_content, file_name))
                 \o BatchLoop(boundary, Tail(file_paths))

RECURSIVE BatchLoopWithPath(_, _, _)
\* BatchLoop with the path part appended inside the loop, once per file
BatchLoopWithPath(boundary, file_paths, remote_path) ==
    IF file_paths = <<>> THEN <<>>
    ELSE BatchLoop(boundary, <<Head(file_paths)>>)
             \o DelimiterLine(boundary) \o <<FieldHeader("path")>>
             \o <<remote_path>> \o <<"\r\n">>
             \o BatchLoopWithPath(boundary, Tail(file_paths), remote_path)

\* BatchBody with the path part inside the loop
BatchBodyPathPerFile(boundary, file_paths, remote_path) ==
    BatchLoopWithPath(boundary, file_paths, remote_path)
        \o ClosingLine(boundary)

\* the body upload_batch builds
BatchBody(boundary, file_paths, remote_path) ==
    BatchLoop(boundary, file_paths)
    \* Path (common)
        \o DelimiterLine(boundary) \o <<FieldHeader("path")>>
        \o <<remote_path>> \o <<"\r\n">>
        \o ClosingLine(boundary)

----------------------------------------------------------------------------
(* upload_file_hash_last and upload_batch *)

FilesUrl(imp) == BASE_URL \o "/api/v1/imports/" \o Str(imp) \o "/files"

\* time.time(): the clock does not run backwards
Times == {t \in Clock : t >= now}

\* UploadResult accepting the status 201 alone
UploadResultCreatedOnly(resp) == PyBool(resp.status = 201)

\* the value upload_file_hash_last returns on a response
UploadResult(resp) == PyBool(resp.status = 201 \/ resp.status = 200)

\* a call as made: its arguments, the value it returned and the index of
\* the request it issued
Call(fn, tok, imp, file_paths, remote_path, ret, request) ==
    [fn |-> fn, token |-> tok, import_id |-> imp, file_paths |-> file_paths,
     remote_path |-> remote_path, ret |-> ret, request |-> request]

\* a call of upload_file_hash_last; `next` is where the caller goes on
upload_file_hash_last(tok, imp, file_path, remote_path, next) ==
    IF ~exists(file_path)
    THEN \* open() raises FileNotFoundError
         /\ pc' = "crashed"
         /\ UNCHANGED <<now, requests, calls, log>>
    ELSE \E t \in Times, resp \in UploadResponses :
            LET file_name == basename(file_path)
                file_content == read(file_path)
                hash == content_hash(file_content, file_name)
                boundary == TestBoundary(t)
                body == SingleBody(boundary, file_name, file_content,
                                   remote_path, hash)
            IN  /\ now' = t
                /\ requests' = Append(requests,
                      Request("upload_file_hash_last", "POST",
                              FilesUrl(imp), Bearer(tok),
                              "multipart/form-data; boundary=" \o boundary,
                              body, resp))
                /\ log' = log \o <<"\nUploading " \o file_name \o " with hash LAST...",
                                   "Status: " \o ToString(resp.status)>>
                /\ calls' = Append(calls,
                      Call("upload_file_hash_last", tok, imp, <<file_path>>,
                           remote_path, UploadResult(resp), Len(requests) + 1))
                /\ pc' = next

\* a call of upload_batch
upload_batch(tok, imp, file_paths, remote_path, next) ==
    LET attempting == "\nAttempting batch upload of " \o ToString(Len(file_paths))
                          \o " files (unlikely to work but testing)..."
    IN  \E t \in Times :
          /\ now' = t
          /\ IF \E i \in 1..Len(file_paths) : ~exists(file_paths[i])
             THEN \* open() raises FileNotFoundError
                  /\ pc' = "crashed"
                  /\ log' = Append(log, attempting)
                  /\ UNCHANGED <<requests, calls>>
             ELSE \E resp \in UploadResponses :
                    LET boundary == BatchBoundary(t)
                        body == BatchBody(boundary, file_paths, remote_path)
                    IN  /\ requests' = Append(requests,
                              Request("upload_batch", "POST",
                                      FilesUrl(imp), Bearer(tok),
                                      "multipart/form-data; boundary=" \o boundary,
                                      body, resp))
                        /\ log' = log \o <<attempting,
                                           "Batch Status: " \o ToString(resp.status),
                                           "Batch Body: " \o Text(resp)>>
                        /\ calls' = Append(calls,
                              Call("upload_batch", tok, imp, file_paths,
                                   remote_path, PyNone, Len(requests) + 1))
                        /\ pc' = next

----------------------------------------------------------------------------
(* main *)

\* main making the batch upload before the single upload
main_uploads_batch_first ==
    /\ pc = "upload_file_hash_last"
    /\ IF /\ \A i \in 1..Len(requests) : requests[i].by # "upload_batch"
          /\ \A i \in 1..Len(files) : exists(files[i])
       THEN upload_batch(token, import_id, files, "/", "upload_file_hash_last")
       ELSE IF exists(test_file)
            THEN upload_file_hash_last(token, import_id, test_file, "/", "done")
            ELSE pc' = "done" /\ UNCHANGED <<now, requests, calls, log>>
    /\ UNCHANGED <<fs, token, team_id, import_id>>

\* Test 1: Hash Last
main_upload_file_hash_last ==
    /\ pc = "upload_file_hash_last"
    /\ IF exists(test_file)
       THEN upload_file_hash_last(token, import_id, test_file, "/", "upload_batch")
       ELSE pc' = "upload_batch" /\ UNCHANGED <<now, requests, calls, log>>
    /\ UNCHANGED <<fs, token, team_id, import_id>>

\* main_upload_batch handing the team's id over as the import's id
main_upload_batch_team_id ==
    /\ pc = "upload_batch"
    /\ IF \A i \in 1..Len(files) : exists(files[i])
       THEN upload_batch(token, team_id, files, "/", "done")
       ELSE pc' = "done" /\ UNCHANGED <<now, requests, calls, log>>
    /\ UNCHANGED <<fs, token, team_id, import_id>>

\* Test 2: Batching
main_upload_batch ==
    /\ pc = "upload_batch"
    /\ IF \A i \in 1..Len(files) : exists(files[i])
       THEN upload_batch(token, import_id, files, "/", "done")
       ELSE pc' = "done" /\ UNCHANGED <<now, requests, calls, log>>
    /\ UNCHANGED <<fs, token, team_id, import_id>>

\* the file that both uploads read grows between the single upload and the
\* batch upload, which opens the file anew
file_rewritten ==
    /\ pc = "upload_batch"
    /\ exists(test_file)
    /\ Len(read(test_file)) < MaxContentLen
    /\ \E byte \in ContentBytes :
          fs' = [fs EXCEPT ![test_file] = <<TRUE, Append(read(test_file), byte)>>]
    /\ UNCHANGED <<pc, now, token, team_id, import_id, requests, calls, log>>

\* a run of main: the filesystem holds any files at the paths main reads
Init ==
    /\ pc = "get_token_1"
    /\ fs \in [AllPaths -> FileStates]
    /\ \A p \in AllPaths \ MainPaths : fs[p] = Absent
    /\ now = 1
    /\ token = PyNone
    /\ team_id = PyNone
    /\ import_id = PyNone
    /\ requests = <<>>
    /\ calls = <<>>
    /\ log = <<>>

Next ==
    \/ get_token_1
    \/ get_token_2
    \/ get_token_3
    \/ get_team_id
    \/ create_import
    \/ main_upload_file_hash_last
    \/ file_rewritten
    \/ main_upload_batch

Spec == Init /\ [][Next]_vars

----------------------------------------------------------------------------
(* The upload functions called directly, on any arguments *)

call_upload_file_hash_last ==
    /\ pc = "call"
    /\ \E file_path \in AllPaths, remote_path \in RemotePaths :
          upload_file_hash_last(token, import_id, file_path, remote_path, "done")
    /\ UNCHANGED <<fs, token, team_id, import_id>>

call_upload_batch ==
    /\ pc = "call"
    /\ \E file_paths \in SeqsUpTo(AllPaths, MaxFiles), remote_path \in RemotePaths :
          upload_batch(token, import_id, file_paths, remote_path, "done")
    /\ UNCHANGED <<fs, token, team_id, import_id>>

InitCall ==
    /\ pc = "call"
    /\ fs \in [AllPaths -> FileStates]
    /\ now = 1
    /\ token = PyStr(AccessTokens[1])
    /\ team_id = PyInt(42)
    /\ import_id = PyStr("999")
    /\ requests = <<>>
    /\ calls = <<>>
    /\ log = <<>>

NextCall ==
    \/ call_upload_file_hash_last
    \/ call_upload_batch

SpecCall == InitCall /\ [][NextCall]_vars

----------------------------------------------------------------------------
(* Properties *)

\* the indices of the requests issued so far by function `by`
RequestsBy(by) == {i \in 1..Len(requests) : requests[i].by = by}

\* the calls made so far of function `fn`
CallsOf(fn) == {i \in 1..Len(calls) : calls[i].fn = fn}

\* the access_token a response body carries, None when it carries none
AccessTokenOf(resp) == IF resp.shape = "value" THEN resp.val ELSE PyNone

\* get_token has returned to main
GetTokenReturned ==
    /\ pc \notin {"get_token_1", "get_token_2", "get_token_3"}
    /\ ~(pc = "crashed" /\ requests[Len(requests)].by = "get_token")

\* the three token request bodies, in the order of the fallback
ExpectedTokenBodies ==
    LET credentials == "grant_type=password&client_id=" \o CLIENT_ID
                           \o "&client_secret=" \o CLIENT_SECRET
    IN  <<credentials \o "&scope=read+write", credentials \o "&scope=api",
          credentials>>

\* C1: get_token issues its token requests in the order scope=read+write,
\* scope=api, no scope; an attempt is issued only after the one before it
\* received a status other than 200; and the value get_token returns is the
\* access token of the first attempt answered with 200 (which is the last
\* attempt issued), or None after three attempts without a 200.
C1_ScopeFallbackOrder ==
    /\ \A i \in RequestsBy("get_token") :
          /\ i <= 3
          /\ requests[i].body = <<ExpectedTokenBodies[i]>>
          /\ i > 1 => /\ requests[i - 1].by = "get_token"
                      /\ requests[i - 1].resp.status # 200
    /\ GetTokenReturned =>
          LET ok == {i \in RequestsBy("get_token") : requests[i].resp.status = 200}
          IN  IF ok # {}
              THEN \E k \in ok :
                      /\ \A j \in RequestsBy("get_token") : j <= k
                      /\ \A j \in ok : j = k
                      /\ token = AccessTokenOf(requests[k].resp)
              ELSE /\ RequestsBy("get_token") = 1..3
                   /\ token = PyNone

\* C1: the endpoint rejected read+write and api and accepted the request
\* without scope, and get_token returned the token of the third attempt
C1_Witness ==
    /\ pc = "get_team_id"
    /\ Len(requests) = 3
    /\ requests[1].resp.status # 200
    /\ requests[2].resp.status # 200
    /\ requests[3].resp.status = 200
    /\ token = PyStr(AccessTokens[3])

\* the token endpoint rejected all three attempts
AllTokenAttemptsRejected ==
    /\ Len(requests) >= 3
    /\ \A i \in 1..3 : /\ requests[i].by = "get_token"
                       /\ requests[i].resp.status # 200

\* C2: when the token endpoint rejects all three attempts, get_token returns
\* no token and the run ends without any further request: no lookup of the
\* team, no creation of an import and no upload.
C2_AuthFailureAborts ==
    AllTokenAttemptsRejected =>
        /\ token = PyNone
        /\ pc = "done"
        /\ Len(requests) = 3
        /\ calls = <<>>

\* C2: a run in which all three attempts were rejected
C2_Witness == AllTokenAttemptsRejected /\ pc = "done"

----------------------------------------------------------------------------
(* Properties of the multipart bodies.  A part of a body, as built, starts  *)
(* at a delimiter line that a Content-Disposition header follows.           *)

FieldNames ==
    {"name", "path", "file", "content_hash", "name[]", "content_hash[]", "file[]"}

\* the header of a plain field
Disposition(name) ==
    "Content-Disposition: form-data; name=\"" \o name \o "\"\r\n\r\n"

\* the first header of a file field
FileDisposition(name, file_name) ==
    "Content-Disposition: form-data; name=\"" \o name \o "\"; filename=\""
        \o file_name \o "\"\r\n"

\* the last component of a path
LastOf(path) == path[Len(path)]

Dispositions ==
    {Disposition(n) : n \in FieldNames}
        \cup {FileDisposition(n, LastOf(p)) : n \in FieldNames, p \in AllPaths}

RECURSIVE PartStartsFrom(_, _, _)
PartStartsFrom(body, boundary, i) ==
    IF i + 2 > Len(body) THEN <<>>
    ELSE IF /\ body[i] = "--" \o boundary
            /\ body[i + 1] = "\r\n"
            /\ body[i + 2] \in Dispositions
         THEN <<i>> \o PartStartsFrom(body, boundary, i + 1)
         ELSE PartStartsFrom(body, boundary, i + 1)

\* the indices of the chunks at which the parts of a body start, in order
PartStarts(body, boundary) == PartStartsFrom(body, boundary, 1)

\* the byte offset of chunk i of a body
Offset(body, i) == ByteLen(SubSeq(body, 1, i - 1))

\* the closing boundary, and nothing else, follows chunk i of a body
ClosesAfter(body, boundary, i) ==
    SubSeq(body, i + 1, Len(body)) = <<"--" \o boundary, "--\r\n">>

\* the boundary a request declares in its Content-Type, if it is `prefix`
\* followed by a time of the clock
DeclaredBoundaries(req, prefix) ==
    {b \in {prefix \o ToString(t) : t \in Clock} :
        req.ctype = "multipart/form-data; boundary=" \o b}

\* C3: the body upload_file_hash_last builds consists of exactly four parts,
\* in the order name, path, file, content_hash, and the closing boundary;
\* the content_hash part starts at a byte offset greater than those of the
\* other three, and only the closing boundary follows it.
C3_SingleUploadFieldOrder ==
    \A c \in CallsOf("upload_file_hash_last") :
        LET req == requests[calls[c].request]
            body == req.body
            file_name == LastOf(calls[c].file_paths[1])
        IN  /\ DeclaredBoundaries(req, "----TestBoundary") # {}
            /\ \A boundary \in DeclaredBoundaries(req, "----TestBoundary") :
                  LET at == PartStarts(body, boundary)
                  IN  /\ Len(at) = 4
                      /\ at[1] = 1
                      /\ body[at[1] + 2] = Disposition("name")
                      /\ body[at[2] + 2] = Disposition("path")
                      /\ body[at[3] + 2] = FileDisposition("file", file_name)
                      /\ body[at[4] + 2] = Disposition("content_hash")
                      /\ \A k \in 1..3 : Offset(body, at[4]) > Offset(body, at[k])
                      /\ body[at[4] + 4] = "\r\n"
                      /\ ClosesAfter(body, boundary, at[4] + 4)

\* C3: upload_file_hash_last was called on a file that is not empty, with a
\* remote path other than "/"
C3_Witness ==
    \E c \in CallsOf("upload_file_hash_last") :
        /\ read(calls[c].file_paths[1]) # <<>>
        /\ calls[c].remote_path # "/"

\* C4: for a list of n files, the body upload_batch builds holds one
\* name[], content_hash[], file[] triple per file, in the order of the list,
\* then exactly one path part and the closing boundary: 3n + 1 parts; and
\* the call issues exactly one request.
C4_BatchTriplesThenPath ==
    \A c \in CallsOf("upload_batch") :
        LET req == requests[calls[c].request]
            body == req.body
            file_paths == calls[c].file_paths
            n == Len(file_paths)
        IN  /\ DeclaredBoundaries(req, "----BatchBoundary") # {}
            /\ \A boundary \in DeclaredBoundaries(req, "----BatchBoundary") :
                  LET at == PartStarts(body, boundary)
                  IN  /\ Len(at) = 3 * n + 1
                      /\ \A k \in 1..n :
                            LET file_name == LastOf(file_paths[k])
                            IN  /\ body[at[3 * k - 2] + 2] = Disposition("name[]")
                                /\ body[at[3 * k - 2] + 3] = file_name
                                /\ body[at[3 * k - 1] + 2] = Disposition("content_hash[]")
                                /\ body[at[3 * k] + 2] = FileDisposition("file[]", file_name)
                      /\ body[at[3 * n + 1] + 2] = Disposition("path")
                      /\ body[at[3 * n + 1] + 3] = calls[c].remote_path
                      /\ body[at[3 * n + 1] + 4] = "\r\n"
                      /\ ClosesAfter(body, boundary, at[3 * n + 1] + 4)
            /\ Cardinality({i \in RequestsBy("upload_batch") :
                               i = calls[c].request}) = 1
            /\ Cardinality(RequestsBy("upload_batch"))
                   = Cardinality(CallsOf("upload_batch"))

\* C4: upload_batch was called on two different files
C4_Witness ==
    \E c \in CallsOf("upload_batch") :
        /\ Len(calls[c].file_paths) = 2
        /\ calls[c].file_paths[1] # calls[c].file_paths[2]

\* the digest of bytes followed by a name
DigestOf(bytes, name) == "md5(" \o Flatten(bytes) \o name \o ")"

\* C5: the content_hash value of a payload is the digest of the file's bytes
\* followed by the file's base name: the value of the last part of the body
\* of upload_file_hash_last, and in upload_batch the content_hash[] value of
\* each triple, whose name[] value and file[] bytes are those of the same file.
C5_HashOfBytesAndBaseName ==
    /\ \A c \in CallsOf("upload_file_hash_last") :
          LET req == requests[calls[c].request]
              file_path == calls[c].file_paths[1]
          IN  \A boundary \in DeclaredBoundaries(req, "----TestBoundary") :
                  LET at == PartStarts(req.body, boundary)
                      last == at[Len(at)]
                  IN  /\ at # <<>>
                      /\ req.body[last + 2] = Disposition("content_hash")
                      /\ req.body[last + 3]
                             = DigestOf(fs[file_path][2], LastOf(file_path))
    /\ \A c \in CallsOf("upload_batch") :
          LET req == requests[calls[c].request]
              file_paths == calls[c].file_paths
          IN  \A boundary \in DeclaredBoundaries(req, "----BatchBoundary") :
                  LET at == PartStarts(req.body, boundary)
                  IN  /\ Len(at) >= 3 * Len(file_paths)
                      /\ \A k \in 1..Len(file_paths) :
                            LET bytes == fs[file_paths[k]][2]
                                name == LastOf(file_paths[k])
                            IN  /\ req.body[at[3 * k - 2] + 3] = name
                                /\ req.body[at[3 * k - 1] + 2]
                                       = Disposition("content_hash[]")
                                /\ req.body[at[3 * k - 1] + 3] = DigestOf(bytes, name)
                                /\ SubSeq(req.body, at[3 * k] + 4,
                                          at[3 * k] + 3 + Len(bytes)) = bytes

\* C5: upload_batch was called on two files of different names and of
\* different bytes, neither empty
C5_Witness ==
    \E c \in CallsOf("upload_batch") :
        LET file_paths == calls[c].file_paths
        IN  /\ Len(file_paths) = 2
            /\ LastOf(file_paths[1]) # LastOf(file_paths[2])
            /\ read(file_paths[1]) # read(file_paths[2])
            /\ read(file_paths[1]) # <<>>
            /\ read(file_paths[2]) # <<>>

\* C6: the content hash is bound to the bytes and to the name: of two files
\* of a batch, equal bytes under different names give different hashes,
\* different bytes under the same name give different hashes, and equal
\* bytes under the same name give the same hash.
C6_HashBoundToBytesAndName ==
    \A c \in CallsOf("upload_batch") :
        LET req == requests[calls[c].request]
            file_paths == calls[c].file_paths
        IN  \A boundary \in DeclaredBoundaries(req, "----BatchBoundary") :
                LET at == PartStarts(req.body, boundary)
                    \* the content_hash[] value of each triple
                    hash == [k \in 1..Len(file_paths) |-> req.body[at[3 * k - 1] + 3]]
                    bytes == [k \in 1..Len(file_paths) |-> fs[file_paths[k]][2]]
                    name == [k \in 1..Len(file_paths) |-> LastOf(file_paths[k])]
                IN  \A i, j \in 1..Len(file_paths) :
                        /\ (bytes[i] = bytes[j] /\ name[i] # name[j])
                               => hash[i] # hash[j]
                        /\ (bytes[i] # bytes[j] /\ name[i] = name[j])
                               => hash[i] # hash[j]
                        /\ (bytes[i] = bytes[j] /\ name[i] = name[j])
                               => hash[i] = hash[j]

\* C6: upload_batch was called on two files of the same bytes and of
\* different names
C6_Witness ==
    \E c \in CallsOf("upload_batch") :
        LET file_paths == calls[c].file_paths
        IN  /\ Len(file_paths) = 2
            /\ read(file_paths[1]) = read(file_paths[2])
            /\ read(file_paths[1]) # <<>>
            /\ LastOf(file_paths[1]) # LastOf(file_paths[2])

----------------------------------------------------------------------------
(* Properties of the results and of the run *)

\* C7: upload_file_hash_last issues one request and returns True when the
\* status of the response is 200 or 201 and False for any other status; each
\* request it issued belongs to one call that returned.
C7_SingleUploadResult ==
    /\ \A c \in CallsOf("upload_file_hash_last") :
          LET i == calls[c].request
          IN  /\ i \in RequestsBy("upload_file_hash_last")
              /\ calls[c].ret = IF requests[i].resp.status \in {200, 201}
                                THEN <<"bool", "True">>
                                ELSE <<"bool", "False">>
    /\ \A i \in RequestsBy("upload_file_hash_last") :
          /\ Cardinality({c \in CallsOf("upload_file_hash_last") :
                             calls[c].request = i}) = 1
          /\ pc # "crashed"

\* C7: upload_file_hash_last received a status other than 200 and 201 and
\* returned False
C7_Witness ==
    \E c \in CallsOf("upload_file_hash_last") :
        /\ requests[calls[c].request].resp.status \notin {200, 201}
        /\ calls[c].ret = <<"bool", "False">>

\* the upload requests issued so far
UploadRequests ==
    RequestsBy("upload_file_hash_last") \cup RequestsBy("upload_batch")

\* the identifier create_import returns on a response it does not raise on
ReturnedImportId(resp) ==
    IF resp.status = 201 /\ resp.shape = "value" THEN resp.val ELSE PyNone

\* the URL of the files of import `id`
FilesUrlOf(id) ==
    "https://sleephq.com/api/v1/imports/"
        \o (IF id = PyNone THEN "None" ELSE id[2]) \o "/files"

\* C8, as stated: in every run exactly one import session is created, and
\* every upload request of the run targets the identifier of that session.
C8_ExactlyOneSessionPerRun ==
    pc = "done" =>
        \E i \in RequestsBy("create_import") :
            /\ RequestsBy("create_import") = {i}
            /\ requests[i].resp.status = 201
            /\ requests[i].resp.shape = "value"
            /\ \A u \in UploadRequests :
                  requests[u].url = FilesUrlOf(requests[i].resp.val)

\* C8, amended: in every run at most one create-import request is issued,
\* and every upload request, single or batch, follows it and targets the id
\* that create_import returned: the identifier of the session when it was
\* created, and None when it was not.
C8_UploadsTargetReturnedImportId ==
    /\ Cardinality(RequestsBy("create_import")) <= 1
    /\ \A u \in UploadRequests :
          \E i \in RequestsBy("create_import") :
              /\ i < u
              /\ requests[u].url = FilesUrlOf(ReturnedImportId(requests[i].resp))

\* C8: a run that created a session and issued both uploads
C8_Witness ==
    /\ pc = "done"
    /\ \E i \in RequestsBy("create_import") : requests[i].resp.status = 201
    /\ import_id = PyStr("999")
    /\ RequestsBy("upload_file_hash_last") # {}
    /\ RequestsBy("upload_batch") # {}

\* C9: when the lookup of the team receives a status other than 200,
\* get_team_id returns None and the run goes on: main issues the
\* create-import request, once, for the team None.
C9_LookupFailureProceeds ==
    \A i \in RequestsBy("get_team_id") :
        requests[i].resp.status # 200 =>
            /\ Truthy(token)
            /\ team_id = PyNone
            /\ IF pc = "create_import"
               THEN /\ RequestsBy("create_import") = {}
                    /\ ENABLED create_import
               ELSE /\ RequestsBy("create_import") = {i + 1}
                    /\ requests[i + 1].url
                           = "https://sleephq.com/api/v1/teams/None/imports"

\* C9: a run that ended after a lookup answered with a status other than 200
C9_Witness ==
    /\ pc = "done"
    /\ \E i \in RequestsBy("get_team_id") : requests[i].resp.status # 200
    /\ RequestsBy("create_import") # {}

\* C10: create_import returns the identifier on the status 201 only and
\* None on every other status, 200 included; whatever it returns, the run
\* goes on: the single upload is issued iff its file exists and the batch
\* upload iff all of its files exist.
C10_NullImportIdDoesNotStop ==
    \A i \in RequestsBy("create_import") :
        LET resp == requests[i].resp
        IN  /\ resp.status # 201 => pc # "crashed" /\ import_id = PyNone
            /\ pc # "crashed" =>
                  /\ import_id = ReturnedImportId(resp)
                  /\ pc \in {"upload_file_hash_last", "upload_batch", "done"}
                  /\ pc # "done" => ENABLED Next
                  /\ pc \in {"upload_batch", "done"} =>
                        (RequestsBy("upload_file_hash_last") # {}
                            <=> fs[<<"root", "sdcard2", "Identification.json">>][1])
                  /\ pc = "done" =>
                        (RequestsBy("upload_batch") # {}
                            <=> /\ fs[<<"root", "sdcard2", "Identification.json">>][1]
                                /\ fs[<<"root", "sdcard2", "Identification.crc">>][1])

\* C10: a run in which create_import was answered 200, returned None, and
\* both uploads were issued
C10_Witness ==
    /\ pc = "done"
    /\ \E i \in RequestsBy("create_import") :
          requests[i].resp.status = 200 /\ requests[i].resp.shape = "value"
    /\ import_id = PyNone
    /\ RequestsBy("upload_file_hash_last") # {}
    /\ RequestsBy("upload_batch") # {}

----------------------------------------------------------------------------
(* Decoding a multipart body, as a parser of multipart/form-data does: the  *)
(* body is split at each occurrence of the delimiter "--boundary"; what     *)
(* precedes the first is dropped, and the parts end at the delimiter that   *)
(* two dashes follow.                                                       *)

\* the pieces of a body between the occurrences of chunk d
SplitAt(body, d) ==
    LET IsDelimiter(i) == body[i] = d
        at == SelectSeq([i \in 1..Len(body) |-> i], IsDelimiter)
        pos == <<0>> \o at \o <<Len(body) + 1>>
    IN  [k \in 1..(Len(at) + 1) |-> SubSeq(body, pos[k] + 1, pos[k + 1] - 1)]

\* the chunks that are header lines of a part
HeaderChunks == Dispositions \cup {"Content-Type: application/octet-stream\r\n\r\n"}

RECURSIVE HeaderCount(_)
\* the number of header lines a piece starts with
HeaderCount(piece) ==
    IF piece # <<>> /\ Head(piece) \in HeaderChunks
    THEN 1 + HeaderCount(Tail(piece))
    ELSE 0

\* a part: its header lines and its value
Part(headers, data) == [headers |-> headers, data |-> data]

\* the part a piece between two delimiters holds: the line break that ends
\* the delimiter line, the headers, the value, and the line break that
\* belongs to the next delimiter
DecodePart(piece) ==
    LET inner == IF piece # <<>> /\ Head(piece) = "\r\n" THEN Tail(piece) ELSE piece
        h == HeaderCount(inner)
        rest == SubSeq(inner, h + 1, Len(inner))
    IN  Part(SubSeq(inner, 1, h),
             IF rest # <<>> /\ rest[Len(rest)] = "\r\n"
             THEN SubSeq(rest, 1, Len(rest) - 1)
             ELSE rest)

\* the parts a parser recovers from a body
Decode(body, boundary) ==
    LET pieces == SplitAt(body, "--" \o boundary)
        closing == {i \in 2..Len(pieces) :
                       pieces[i] # <<>> /\ Head(pieces[i]) = "--\r\n"}
        last == IF closing = {} THEN Len(pieces)
                ELSE (CHOOSE i \in closing : \A j \in closing : i <= j) - 1
    IN  [i \in 1..(last - 1) |-> DecodePart(pieces[i + 1])]

\* the parts upload_file_hash_last is to send for a file
SingleParts(file_path, remote_path) ==
    LET name == LastOf(file_path)
        bytes == fs[file_path][2]
    IN  << Part(<<Disposition("name")>>, <<name>>),
           Part(<<Disposition("path")>>, <<remote_path>>),
           Part(<<FileDisposition("file", name),
                  "Content-Type: application/octet-stream\r\n\r\n">>, bytes),
           Part(<<Disposition("content_hash")>>, <<DigestOf(bytes, name)>>) >>

RECURSIVE BatchFileParts(_)
\* the parts upload_batch is to send for its files
BatchFileParts(file_paths) ==
    IF file_paths = <<>> THEN <<>>
    ELSE LET name == LastOf(Head(file_paths))
             bytes == fs[Head(file_paths)][2]
         IN  << Part(<<Disposition("name[]")>>, <<name>>),
                Part(<<Disposition("content_hash[]")>>, <<DigestOf(bytes, name)>>),
                Part(<<FileDisposition("file[]", name),
                       "Content-Type: application/octet-stream\r\n\r\n">>, bytes) >>
                 \o BatchFileParts(Tail(file_paths))

\* the parts upload_batch is to send
BatchParts(file_paths, remote_path) ==
    BatchFileParts(file_paths) \o <<Part(<<Disposition("path")>>, <<remote_path>>)>>

\* decoding the body of call c gives back the parts the call was to send
RoundTrips(c) ==
    LET req == requests[calls[c].request]
        prefix == IF calls[c].fn = "upload_batch"
                  THEN "----BatchBoundary" ELSE "----TestBoundary"
        parts == IF calls[c].fn = "upload_batch"
                 THEN BatchParts(calls[c].file_paths, calls[c].remote_path)
                 ELSE SingleParts(calls[c].file_paths[1], calls[c].remote_path)
    IN  /\ DeclaredBoundaries(req, prefix) # {}
        /\ \A boundary \in DeclaredBoundaries(req, prefix) :
              Decode(req.body, boundary) = parts

\* the delimiter of the body of call c occurs in the bytes of one of its files
DelimiterInFile(c) ==
    LET req == requests[calls[c].request]
    IN  \E k \in 1..Len(calls[c].file_paths), t \in Clock :
            LET bytes == fs[calls[c].file_paths[k]][2]
            IN  \E i \in 1..Len(bytes) :
                    \E prefix \in {"----BatchBoundary", "----TestBoundary"} :
                        /\ req.ctype = "multipart/form-data; boundary="
                                           \o prefix \o ToString(t)
                        /\ bytes[i] = "--" \o prefix \o ToString(t)

\* C11, as stated: for every boundary, field values and file bytes, decoding
\* the body built by upload_file_hash_last or upload_batch recovers exactly
\* the parts supplied, in order.
C11_RoundTripAlways ==
    \A c \in 1..Len(calls) : RoundTrips(c)

\* C11, amended: decoding the body recovers exactly the parts supplied, in
\* order, whenever the delimiter does not occur in the bytes of a file.
C11_RoundTripWithoutCollision ==
    \A c \in 1..Len(calls) : ~DelimiterInFile(c) => RoundTrips(c)

\* C11: upload_file_hash_last sent a file that holds the delimiter of
\* another time than that of its boundary
C11_Witness ==
    \E c \in CallsOf("upload_file_hash_last") :
        /\ fs[calls[c].file_paths[1]][2] = <<"------TestBoundary1">>
        /\ ~DelimiterInFile(c)

----------------------------------------------------------------------------
(* The log of get_token *)

\* the number of the attempt of get_token that issued request i
AttemptOf(i) == Cardinality({j \in RequestsBy("get_token") : j <= i})

\* the log entry that carries the failure reason of attempt k
FailureEntry(k, resp) == "Token attempt " \o ToString(k) \o " failed: " \o Text(resp)

\* C12: for each of the three attempts of get_token that receives a response
\* other than success, a log entry carrying that attempt's failure reason is
\* in the log before the next attempt is issued or the function returns.
C12_EachFailedAttemptLogsReason ==
    \A i \in RequestsBy("get_token") :
        ~TokenSuccess(requests[i].resp) =>
            \E j \in 1..Len(log) : log[j] = FailureEntry(AttemptOf(i), requests[i].resp)

----------------------------------------------------------------------------
(* How a run of main ends *)

\* C13: for every combination of outcomes of the token, lookup, import
\* creation and upload requests (any status, any body shape) and of file
\* existence, main runs to completion without an unhandled error.
C13_NoUnhandledError == pc # "crashed"

----------------------------------------------------------------------------
(* The requests of a run of main *)

\* the functions that issue requests, in the order main calls them
Stages == <<"get_token", "get_team_id", "create_import",
            "upload_file_hash_last", "upload_batch">>

\* the place in Stages of the function that issued request i
StageOf(i) == CHOOSE k \in 1..Len(Stages) : Stages[k] = requests[i].by

\* the functions that issued the requests, in order of issue
IssuedBy == [i \in 1..Len(requests) |-> requests[i].by]

\* C14: the requests of a run are issued one after the other, each with its
\* response received before the next, and in stages: the token requests,
\* then the workspace lookup, then the import creation, then the single
\* upload, then the batch upload.
C14_RequestsStagedInOrder ==
    /\ \A i \in 1..Len(requests) :
          /\ \E k \in 1..Len(Stages) : Stages[k] = requests[i].by
          /\ requests[i].resp.status \in Statuses
    /\ \A i, j \in 1..Len(requests) :
          i < j => /\ StageOf(i) <= StageOf(j)
                   /\ StageOf(j) > 1 => StageOf(i) < StageOf(j)

\* C14: a run went through every stage
C14_Witness ==
    /\ pc = "done"
    /\ IssuedBy = <<"get_token", "get_token", "get_team_id", "create_import",
                    "upload_file_hash_last", "upload_batch">>

\* C15: a run issues at most three token requests, and at most one request
\* each for the workspace lookup, the import creation, the single upload and
\* the batch upload.
C15_RequestCounts ==
    /\ Cardinality(RequestsBy("get_token")) <= 3
    /\ \A k \in 2..Len(Stages) : Cardinality(RequestsBy(Stages[k])) <= 1

\* C15: a run issued three token requests and one request of each other kind,
\* each of them answered with a failure status but the third token request
C15_Witness ==
    /\ pc = "done"
    /\ Cardinality(RequestsBy("get_token")) = 3
    /\ \A k \in 2..Len(Stages) : Cardinality(RequestsBy(Stages[k])) = 1
    /\ \A i \in 1..Len(requests) : i # 3 => requests[i].resp.status = 401

\* C16: a token response of status 200 ends the fallback, also when its body
\* carries no or an empty access_token: no further token request follows
\* it; when its body carries no token, get_token returns an absent token,
\* main ends and no request follows; every request after the token stage
\* carries a token that is not empty.
C16_SuccessStatusEndsFallback ==
    /\ \A i \in RequestsBy("get_token") :
          requests[i].resp.status = 200 =>
              /\ \A j \in RequestsBy("get_token") : j <= i
              /\ ~Truthy(AccessTokenOf(requests[i].resp)) =>
                    /\ Len(requests) = i
                    /\ ~Truthy(token)
                    /\ requests[i].resp.shape # "invalid" => pc = "done"
    /\ \A i \in 1..Len(requests) :
          requests[i].by # "get_token" =>
              /\ Truthy(token)
              /\ requests[i].auth = "Bearer " \o token[2]

\* C16: the second attempt was answered 200 with a body that holds no
\* access_token, and the run ended there
C16_Witness ==
    /\ pc = "done"
    /\ Len(requests) = 2
    /\ requests[2].resp = Resp(200, "empty", PyNone)
    /\ token = PyNone

----------------------------------------------------------------------------
(* The two uploads of a run of main *)

\* main has gone past the call of create_import and ended
PastUploads == pc = "done" /\ RequestsBy("create_import") # {}

\* the bytes of the file part in the body of the single upload of call c
SingleFileBytes(c) ==
    LET req == requests[calls[c].request]
        boundary == CHOOSE b \in DeclaredBoundaries(req, "----TestBoundary") : TRUE
    IN  Decode(req.body, boundary)[3].data

\* C17: the batch upload does not depend on the single upload: it is issued
\* exactly when every one of its files exists, whether the single upload was
\* skipped, returned true or returned false; it carries the bytes and the
\* hash of each file as the file is when the batch reads it, not what the
\* single upload sent; both uploads are given main's token and import id.
C17_BatchIndependentOfSingle ==
    /\ PastUploads =>
          (CallsOf("upload_batch") # {} <=> \A i \in 1..Len(files) : fs[files[i]][1])
    /\ \A c \in CallsOf("upload_batch") :
          /\ calls[c].file_paths = files
          /\ RoundTrips(c)
    /\ \A c \in 1..Len(calls) :
          calls[c].token = token /\ calls[c].import_id = import_id

\* C17: the single upload returned false, the file it sent was rewritten,
\* and the batch upload was issued with the new bytes
C17_Witness ==
    /\ PastUploads
    /\ \E c \in CallsOf("upload_file_hash_last"), d \in CallsOf("upload_batch") :
          /\ calls[c].ret = PyBool(FALSE)
          /\ SingleFileBytes(c) # fs[test_file][2]
          /\ RoundTrips(d)

====
